---- MODULE Spec2Model ----
(***************************************************************************)
(* LightBox LED matrix controller: the frame engine (Conductor.LEDMatrix), *)
(* the animation loader with its fallback chain, the configuration store   *)
(* (config.Config) with its change-detection protocol, the coordinate      *)
(* mapper, and the control surface (webgui/app.py, hardware/buttons.py)    *)
(* that calls into them.                                                   *)
(*                                                                         *)
(* Units: brightness and speed are floats in the source; the model keeps   *)
(* them as integers in tenths (brightness 5 is 0.5, speed 10 is 1.0).      *)
(* Program names are interchangeable, so the directory listing is kept in  *)
(* one fixed order (glob order is arbitrary but names carry no meaning);   *)
(* "c" has a file only in the run that follows the fallback chain for      *)
(* ever, and elsewhere is a name that is asked for but has no file.        *)
(***************************************************************************)
EXTENDS Integers, Sequences, FiniteSets, TLC

VARIABLES
    config,              \* the shared Config record (config.py)
    dir,                 \* scripts/*.py stems, in glob order
    kind,                \* what each candidate does on load / on animate
    hwMode,              \* "hw" | "initfail" | "nolib"  (init_hardware outcome)
    pixels,              \* LEDMatrix.pixels: the pixel buffer
    leds,                \* what the strip displays: the buffer at the last show()
    hw_brightness,       \* NeoPixel.brightness
    current_program,     \* LEDMatrix.current_program (a name, or NoProgram)
    running,             \* LEDMatrix.running
    frame_count,         \* LEDMatrix.frame_count
    last_config_check,   \* LEDMatrix.last_config_check
    last_config_counter, \* LEDMatrix.last_config_counter
    pc,                  \* position of the thread executing LEDMatrix.start()
    wpc,                 \* position of the web thread inside api_control's stop
    now,                 \* time.time()
    rendered,            \* outcome of the current tick's render phase
    tickProg,            \* program whose animate() the current tick called
    attempts,            \* names load_program tried to import in its last resolution pass
    exitCause,           \* why the loop left the while: none | stop | signal | error
    presets_file,        \* presets.json, the web panel's preset store
    preset_index,        \* ButtonController._current_preset_index
    checkpoint,          \* a reader's (last_check_time, last_counter), once taken
    marksSince,          \* mark_updated() calls since the checkpoint was taken
    streak,              \* the current run of successive mark_updated() calls
    opsDone,             \* control-surface operations performed so far
    mapCall,             \* the last coordinate-mapping call and its results
    probe,               \* the last call of another pure function, with its result
    spawned,             \* position of the thread api_control's start action created
    poll,                \* the loop's position inside check_config_updates, with its local
    writers              \* each web request thread's position inside its handler, with locals

syncVars == <<poll, writers>>
engineVars == <<dir, kind, hwMode, syncVars, pixels, leds, hw_brightness, running, frame_count,
                last_config_check, last_config_counter, pc, spawned, wpc, rendered, tickProg,
                exitCause>>
surfaceVars == <<presets_file, preset_index>>
readerVars == <<checkpoint, marksSince, streak>>

vars == <<config, current_program, attempts, now, engineVars, surfaceVars, readerVars,
          opsDone, mapCall, probe>>

(***************************************************************************)
(* Bounds of the model.                                                    *)
(***************************************************************************)
RecursionLimit == 4      \* depth at which a nested load_program call raises RecursionError
NumPixels == 2           \* matrix_width of the engine runs (matrix_height is 1)
MaxFrames == 2           \* ticks explored per run
MaxUpdates == 1          \* mark_updated() calls explored per engine run
MaxOps == 3              \* control-surface operations explored per configuration run
MaxTime == 2             \* clock values explored per configuration run
MaxWidth == 3            \* matrix widths explored by the coordinate mapping
MaxHeight == 3           \* matrix heights explored by the coordinate mapping

Names == {"a", "b", "c"}
NoProgram == "none"
Kinds == {"good", "wild", "renderfail", "loadfail", "noanimate"}
FpsValues == {0, 30}

Black == <<0, 0, 0>>
InRange == <<255, 0, 128>>
OutOfRange == <<300, -5, 128>>
Malformed == <<1, 2>>

Max2(x, y) == IF x >= y THEN x ELSE y
Min2(x, y) == IF x <= y THEN x ELSE y

(***************************************************************************)
(* Hardware capability, as init_hardware leaves it.                        *)
(***************************************************************************)
GPIO_AVAILABLE == hwMode # "nolib"
PixelsIsList == hwMode # "hw"
HasShow == hwMode = "hw"

AllBlack(px) == \A i \in 1..Len(px) : px[i] = Black
Filled(px, v) == [i \in 1..Len(px) |-> v]

InitPixels(cfg) == [i \in 1..(cfg.matrix_width * cfg.matrix_height) |-> Black]

(***************************************************************************)
(* clamp_pixels and the per-pixel validation it applies to a list buffer.  *)
(***************************************************************************)
IsRGB(pix) == Len(pix) = 3
ClampByte(v) == Max2(0, Min2(255, v))
ClampPixel(pix) ==
    IF IsRGB(pix) THEN <<ClampByte(pix[1]), ClampByte(pix[2]), ClampByte(pix[3])>>
    ELSE Black
ClampPixels(px) ==
    IF PixelsIsList THEN [i \in 1..Len(px) |-> ClampPixel(px[i])] ELSE px

ValidPixel(pix) ==
    /\ Len(pix) = 3
    /\ \A k \in 1..3 : pix[k] >= 0 /\ pix[k] <= 255

(***************************************************************************)
(* load_program: importing a candidate, and the fallback chain.            *)
(* A state st is [cur, cfg, att]: LEDMatrix.current_program,               *)
(* config.current_program and the names whose import was attempted.        *)
(* A call nested deeper than RecursionLimit raises to its caller.          *)
(***************************************************************************)
InDir(name) == \E i \in 1..Len(dir) : dir[i] = name
ImportRaises(name) == kind[name] = "loadfail"

RECURSIVE LoadProgram(_, _, _)
RECURSIVE TryFallbacks(_, _, _, _)

\* the except-branch loop: for fallback in available_programs: if fallback != program_name
TryFallbacks(name, i, depth, st) ==
    IF i > Len(dir)
    THEN [raised |-> FALSE, cur |-> NoProgram, cfg |-> st.cfg, att |-> st.att]
    ELSE IF dir[i] = name
    THEN TryFallbacks(name, i + 1, depth, st)
    ELSE LET r == LoadProgram(dir[i], depth + 1, st)
         IN  IF r.raised
             THEN TryFallbacks(name, i + 1, depth, [cur |-> r.cur, cfg |-> r.cfg, att |-> r.att])
             ELSE r

LoadProgram(name, depth, st) ==
    IF depth > RecursionLimit
    THEN [raised |-> TRUE, cur |-> st.cur, cfg |-> st.cfg, att |-> st.att]
    ELSE IF InDir(name)
    THEN LET st1 == [st EXCEPT !.att = Append(st.att, name)]
         IN  IF ~ImportRaises(name)
             THEN [raised |-> FALSE, cur |-> name, cfg |-> name, att |-> st1.att]
             ELSE TryFallbacks(name, 1, depth, st1)
    ELSE IF Len(dir) > 0
    THEN LET r == LoadProgram(dir[1], depth + 1, st)
         IN  IF r.raised
             THEN TryFallbacks(name, 1, depth, [cur |-> r.cur, cfg |-> r.cfg, att |-> r.att])
             ELSE r
    ELSE [raised |-> FALSE, cur |-> NoProgram, cfg |-> st.cfg, att |-> st.att]

\* a top-level call self.load_program(name)
CallLoadProgram(name, cur, cfgname) ==
    LoadProgram(name, 1, [cur |-> cur, cfg |-> cfgname, att |-> <<>>])

\* a fallback that keeps the failed program when there is no other candidate
RenderFallbackKeeps(cur, cfgname) ==
    LET others == {i \in 1..Len(dir) : dir[i] # cur}
    IN  IF others = {}
        THEN [raised |-> FALSE, cur |-> cur, cfg |-> cfgname, att |-> <<>>]
        ELSE CallLoadProgram(dir[CHOOSE i \in others : \A j \in others : i <= j], cur, cfgname)

\* the except-branch of start(): try the first candidate other than the one that failed
RenderFallback(cur, cfgname) ==
    LET others == {i \in 1..Len(dir) : dir[i] # cur}
    IN  IF others = {}
        THEN [raised |-> FALSE, cur |-> NoProgram, cfg |-> cfgname, att |-> <<>>]
        ELSE CallLoadProgram(dir[CHOOSE i \in others : \A j \in others : i <= j], cur, cfgname)

(***************************************************************************)
(* Config.mark_updated / Config.has_updates                                *)
(***************************************************************************)
\* a mark_updated that stamps the time but does not count
MarkUpdatedNoCount(cfg, t) ==
    [cfg EXCEPT !.last_modified = t]

MarkUpdated(cfg, t) ==
    [cfg EXCEPT !.last_modified = t, !.update_counter = cfg.update_counter + 1]

\* a has_updates that compares timestamps only
HasUpdatesTimeOnly(cfg, last_check_time, last_counter) ==
    cfg.last_modified > last_check_time

HasUpdates(cfg, last_check_time, last_counter) ==
    cfg.last_modified > last_check_time \/ cfg.update_counter > last_counter

(***************************************************************************)
(* What one animate(pixels, config, frame) call can do to the buffer.      *)
(* A NeoPixel buffer rejects a malformed entry and either rejects or       *)
(* clamps an out-of-range one; a list buffer stores anything.              *)
(***************************************************************************)
Writes(k) == IF k = "good" THEN {InRange} ELSE {OutOfRange, Malformed}

StoreOutcomes(px, i, v) ==
    IF PixelsIsList \/ ValidPixel(v)
    THEN {[raised |-> FALSE, pixels |-> [px EXCEPT ![i] = v]]}
    ELSE IF IsRGB(v)
    THEN {[raised |-> TRUE, pixels |-> px],
          [raised |-> FALSE, pixels |-> [px EXCEPT ![i] = ClampPixel(v)]]}
    ELSE {[raised |-> TRUE, pixels |-> px]}

\* self.current_program and hasattr(self.current_program, 'animate')
HasAnimate(prog) == IF prog = NoProgram THEN FALSE ELSE kind[prog] # "noanimate"

AnimateOutcomes(prog, px) ==
    IF kind[prog] = "renderfail"
    THEN {[raised |-> TRUE, pixels |-> px]}
    ELSE UNION {StoreOutcomes(px, i, v) : i \in 1..Len(px), v \in Writes(kind[prog])}

(***************************************************************************)
(* Config.get_palette_color.  A position in [0,1] is n / PosDen; the       *)
(* arithmetic is exact on these fractions (at 0 and 1 the floats are       *)
(* exact too).  The table keeps two of the built-in palettes.              *)
(***************************************************************************)
PosDen == 4              \* positions explored are 0, 1/PosDen, ..., 1
MaxPaletteLen == 3       \* longest custom palette explored

White == <<255, 255, 255>>
BuiltinPalettes ==
    [rainbow |-> << <<255, 0, 0>>, <<255, 127, 0>>, <<255, 255, 0>>, <<0, 255, 0>>,
                    <<0, 0, 255>>, <<75, 0, 130>>, <<148, 0, 211>> >>,
     fire    |-> << <<255, 0, 0>>, <<255, 69, 0>>, <<255, 140, 0>>, <<255, 215, 0>>,
                    <<255, 255, 0>> >>]

\* self.palettes.get(self.current_palette, self.palettes["rainbow"]): the default is
\* evaluated before the lookup, so a table without "rainbow" raises KeyError
PaletteLookupRaises(cfg) == "rainbow" \notin DOMAIN cfg.palettes
SelectedPalette(cfg) ==
    IF cfg.current_palette \in DOMAIN cfg.palettes
    THEN cfg.palettes[cfg.current_palette]
    ELSE cfg.palettes["rainbow"]

\* the two-or-more branch: fraction taken before the index is clamped
Interpolate(palette, n) ==
    LET scaled_num == n * (Len(palette) - 1)             \* scaled_pos * PosDen
        raw_index  == scaled_num \div PosDen              \* int(scaled_pos)
        frac_num   == scaled_num - raw_index * PosDen     \* frac * PosDen
        index      == Max2(0, Min2(raw_index, Len(palette) - 2))
        color1     == palette[index + 1]
        color2     == palette[index + 2]
    IN  [k \in 1..3 |-> (color1[k] * PosDen + (color2[k] - color1[k]) * frac_num) \div PosDen]

GetPaletteColor(cfg, n) ==
    IF PaletteLookupRaises(cfg)
    THEN [raised |-> TRUE, color |-> White]
    ELSE LET palette == SelectedPalette(cfg)
         IN  [raised |-> FALSE,
              color |-> IF Len(palette) = 0 THEN White
                        ELSE IF Len(palette) = 1 THEN palette[1]
                        ELSE Interpolate(palette, n)]

(***************************************************************************)
(* Config.__init__ defaults (geometry, program name and the presets read   *)
(* from settings.json are run inputs).  presets keeps the dict's insertion *)
(* order: a sequence of [name, snap].                                      *)
(***************************************************************************)
DefaultConfig(width, height, prog, presets) ==
    [matrix_width |-> width, matrix_height |-> height, serpentine_wiring |-> TRUE,
     brightness |-> 5, gamma |-> 22, fps |-> 15, current_program |-> prog,
     hue_offset |-> 0, saturation |-> 10, current_palette |-> "rainbow",
     speed |-> 10, scale |-> 10, blend_mode |-> "normal", palettes |-> BuiltinPalettes,
     presets |-> presets, last_modified |-> 0, update_counter |-> 0]

TrackingFields == {"last_modified", "update_counter"}
Settings(cfg) == [f \in (DOMAIN cfg) \ TrackingFields |-> cfg[f]]

NoCheckpoint == [taken |-> FALSE, t |-> 0, c |-> 0]
NoCall == [op |-> "none", x |-> 0, y |-> 0, index |-> 0, rx |-> 0, ry |-> 0, rindex |-> 0]
NoProbe == [fn |-> "none"]
NoStreak == [n |-> 0, base |-> 0, t |-> 0, settings |-> <<>>]
NoPoll == [at |-> "idle", brightness |-> 0]
Writers == {"w1", "w2"}
IdleWriter == [at |-> "idle", value |-> 0, counter |-> 0]

\* directory listings: the candidate files present, in the fixed order
Listings == {<<>>, <<"a">>, <<"b">>, <<"a", "b">>}

\* LEDMatrix.__init__: init_hardware() then load_program()
EngineInit(cfg0) ==
    LET r == CallLoadProgram(cfg0.current_program, NoProgram, cfg0.current_program)
    IN  /\ config = [cfg0 EXCEPT !.current_program = r.cfg]
        /\ current_program = r.cur
        /\ attempts = r.att
        /\ pixels = InitPixels(cfg0)
        /\ leds = InitPixels(cfg0)
        /\ hw_brightness = cfg0.brightness
        /\ running = FALSE
        /\ frame_count = 0
        /\ last_config_check = now
        /\ last_config_counter = 0
        /\ pc = "init"
        /\ spawned = "none"
        /\ wpc = "idle"
        /\ rendered = "idle"
        /\ tickProg = NoProgram
        /\ exitCause = "none"

SurfaceInit ==
    /\ presets_file = <<>>
    /\ preset_index = 0
    /\ checkpoint = NoCheckpoint
    /\ marksSince = 0
    /\ streak = NoStreak
    /\ opsDone = 0
    /\ mapCall = NoCall
    /\ probe = NoProbe
    /\ poll = NoPoll
    /\ writers = [w \in Writers |-> IdleWriter]

Init ==
    /\ now = 0
    /\ dir \in Listings
    /\ kind \in {k \in [Names -> Kinds] : \A n \in Names : ~InDir(n) => k[n] = "good"}
    /\ hwMode \in {"hw", "initfail", "nolib"}
    /\ \E prog \in {"a", "b"} : EngineInit(DefaultConfig(NumPixels, 1, prog, <<>>))
    /\ SurfaceInit

(***************************************************************************)
(* LEDMatrix.check_config_updates                                          *)
(***************************************************************************)
ConfigChanged == HasUpdates(config, last_config_check, last_config_counter)

CheckConfigUpdates ==
    IF ConfigChanged
    THEN /\ hw_brightness' = IF hwMode = "hw" THEN config.brightness ELSE hw_brightness
         /\ last_config_check' = now
         /\ last_config_counter' = config.update_counter
    ELSE UNCHANGED <<hw_brightness, last_config_check, last_config_counter>>

(***************************************************************************)
(* LEDMatrix.start: the loop, split at the points where another thread can *)
(* be observed: the while test with steps 2-4 of the tick, then steps 5-7. *)
(* start() is run by the thread that called it from main() and, after an   *)
(* api_control start request, by the thread that request created.          *)
(***************************************************************************)
LoopThreads == {"main", "spawned"}
At(t) == IF t = "main" THEN pc ELSE spawned
Goto(t, position) ==
    IF t = "main" THEN pc' = position /\ UNCHANGED spawned
    ELSE spawned' = position /\ UNCHANGED pc

Start(t) ==
    /\ At(t) = "init"
    /\ running' = TRUE
    /\ Goto(t, "top")
    /\ UNCHANGED <<config, dir, kind, hwMode, syncVars, pixels, leds, hw_brightness, current_program,
                   frame_count, last_config_check, last_config_counter, wpc, now,
                   rendered, tickProg, attempts, exitCause>>
    /\ UNCHANGED <<surfaceVars, readerVars, opsDone, mapCall, probe>>

\* the tick calls animate(), which returns normally
TickRenderOk(t) ==
    /\ At(t) = "top" /\ running /\ frame_count < MaxFrames
    /\ HasAnimate(current_program)
    /\ CheckConfigUpdates
    /\ \E o \in AnimateOutcomes(current_program, pixels) :
          /\ ~o.raised
          /\ pixels' = IF GPIO_AVAILABLE /\ HasShow THEN ClampPixels(o.pixels) ELSE o.pixels
          /\ leds' = IF GPIO_AVAILABLE /\ HasShow THEN pixels' ELSE leds
    /\ rendered' = "ok"
    /\ tickProg' = current_program
    /\ Goto(t, "pace")
    /\ UNCHANGED <<config, dir, kind, hwMode, syncVars, current_program, running, frame_count, wpc,
                   now, attempts, exitCause>>
    /\ UNCHANGED <<surfaceVars, readerVars, opsDone, mapCall, probe>>

\* the tick calls animate(), which raises: the except branch looks for another program
TickRenderRaises(t) ==
    /\ At(t) = "top" /\ running /\ frame_count < MaxFrames
    /\ HasAnimate(current_program)
    /\ CheckConfigUpdates
    /\ \E o \in AnimateOutcomes(current_program, pixels) :
          /\ o.raised
          /\ pixels' = o.pixels
    /\ LET r == RenderFallback(current_program, config.current_program)
       IN  /\ current_program' = r.cur
           /\ config' = [config EXCEPT !.current_program = r.cfg]
           /\ attempts' = r.att
    /\ rendered' = "raised"
    /\ tickProg' = current_program
    /\ Goto(t, "pace")
    /\ UNCHANGED <<dir, kind, hwMode, syncVars, leds, running, frame_count, wpc, now, exitCause>>
    /\ UNCHANGED <<surfaceVars, readerVars, opsDone, mapCall, probe>>

\* a blank tick that fills the buffer but leaves the strip as it was
TickBlankNoShow(t) ==
    /\ At(t) = "top" /\ running /\ frame_count < MaxFrames
    /\ ~HasAnimate(current_program)
    /\ CheckConfigUpdates
    /\ pixels' = Filled(pixels, Black)
    /\ rendered' = "blank"
    /\ tickProg' = NoProgram
    /\ Goto(t, "pace")
    /\ UNCHANGED <<config, dir, kind, hwMode, syncVars, leds, current_program, running, frame_count,
                   wpc, now, attempts, exitCause>>
    /\ UNCHANGED <<surfaceVars, readerVars, opsDone, mapCall, probe>>

\* no program loaded: fill with black, show if real hardware
TickBlank(t) ==
    /\ At(t) = "top" /\ running /\ frame_count < MaxFrames
    /\ ~HasAnimate(current_program)
    /\ CheckConfigUpdates
    /\ pixels' = Filled(pixels, Black)
    /\ leds' = IF GPIO_AVAILABLE /\ HasShow THEN pixels' ELSE leds
    /\ rendered' = "blank"
    /\ tickProg' = NoProgram
    /\ Goto(t, "pace")
    /\ UNCHANGED <<config, dir, kind, hwMode, syncVars, current_program, running, frame_count, wpc,
                   now, attempts, exitCause>>
    /\ UNCHANGED <<surfaceVars, readerVars, opsDone, mapCall, probe>>

\* the pacing sleep divides by config.fps
PaceRaises == config.fps = 0

\* frame counter, then the pacing sleep: 1.0 / self.config.fps
TickPace(t) ==
    /\ At(t) = "pace"
    /\ frame_count' = frame_count + 1
    /\ rendered' = "idle"
    /\ IF PaceRaises
       THEN /\ Goto(t, "stop_a")          \* ZeroDivisionError: except Exception, then finally
            /\ exitCause' = "error"
       ELSE /\ Goto(t, "top")
            /\ UNCHANGED exitCause
    /\ UNCHANGED <<config, dir, kind, hwMode, syncVars, pixels, leds, hw_brightness, current_program,
                   running, last_config_check, last_config_counter, wpc, now, tickProg,
                   attempts>>
    /\ UNCHANGED <<surfaceVars, readerVars, opsDone, mapCall, probe>>

\* while self.running: is false
LoopExit(t) ==
    /\ At(t) = "top" /\ ~running
    /\ Goto(t, "stop_a")
    /\ exitCause' = "stop"
    /\ UNCHANGED <<config, dir, kind, hwMode, syncVars, pixels, leds, hw_brightness, current_program,
                   running, frame_count, last_config_check, last_config_counter, wpc, now,
                   rendered, tickProg, attempts>>
    /\ UNCHANGED <<surfaceVars, readerVars, opsDone, mapCall, probe>>

\* signal_handler: sys.exit(0) raises SystemExit in the thread running start()
Signal ==
    /\ pc \in {"top", "pace"}
    /\ pc' = "stop_a"
    /\ exitCause' = "signal"
    /\ UNCHANGED <<config, dir, kind, hwMode, syncVars, pixels, leds, hw_brightness, current_program,
                   running, frame_count, last_config_check, last_config_counter, spawned, wpc,
                   now,
                   rendered, tickProg, attempts>>
    /\ UNCHANGED <<surfaceVars, readerVars, opsDone, mapCall, probe>>

(***************************************************************************)
(* LEDMatrix.stop, three steps: running = False; pixels.fill; pixels.show  *)
(***************************************************************************)
\* a stop that only clears the flag
AfterStopFlagOnly == "end"

AfterStopFlag == IF GPIO_AVAILABLE THEN "fill" ELSE "end"
AfterStopFill == IF PixelsIsList THEN "end" ELSE "show"   \* a list has no fill(): AttributeError

\* finally: self.stop()
StopFlag(t) ==
    /\ At(t) = "stop_a"
    /\ running' = FALSE
    /\ Goto(t, IF AfterStopFlag = "fill" THEN "stop_b" ELSE "done")
    /\ UNCHANGED <<config, dir, kind, hwMode, syncVars, pixels, leds, hw_brightness, current_program,
                   frame_count, last_config_check, last_config_counter, wpc, now,
                   rendered, tickProg, attempts, exitCause>>
    /\ UNCHANGED <<surfaceVars, readerVars, opsDone, mapCall, probe>>

\* on a list buffer the call raises AttributeError, which leaves start() through finally
StopFill(t) ==
    /\ At(t) = "stop_b"
    /\ pixels' = IF PixelsIsList THEN pixels ELSE Filled(pixels, Black)
    /\ Goto(t, IF AfterStopFill = "show" THEN "stop_c" ELSE "done")
    /\ exitCause' = IF PixelsIsList THEN "stop_raised" ELSE exitCause
    /\ UNCHANGED <<config, dir, kind, hwMode, syncVars, leds, hw_brightness, current_program, running,
                   frame_count, last_config_check, last_config_counter, wpc, now,
                   rendered, tickProg, attempts>>
    /\ UNCHANGED <<surfaceVars, readerVars, opsDone, mapCall, probe>>

StopShow(t) ==
    /\ At(t) = "stop_c"
    /\ leds' = pixels
    /\ Goto(t, "done")
    /\ UNCHANGED <<config, dir, kind, hwMode, syncVars, pixels, hw_brightness, current_program, running,
                   frame_count, last_config_check, last_config_counter, wpc, now,
                   rendered, tickProg, attempts, exitCause>>
    /\ UNCHANGED <<surfaceVars, readerVars, opsDone, mapCall, probe>>

(***************************************************************************)
(* webgui/app.py api_control, action 'stop': app.matrix.stop() on the web  *)
(* thread, the same three steps.                                           *)
(***************************************************************************)
ApiStop ==
    /\ wpc = "idle" /\ running
    /\ running' = FALSE
    /\ wpc' = IF AfterStopFlag = "fill" THEN "fill" ELSE "idle"
    /\ UNCHANGED <<config, dir, kind, hwMode, syncVars, pixels, leds, hw_brightness, current_program,
                   frame_count, last_config_check, last_config_counter, pc, spawned, now,
                   rendered, tickProg, attempts, exitCause>>
    /\ UNCHANGED <<surfaceVars, readerVars, opsDone, mapCall, probe>>

ApiStopFill ==
    /\ wpc = "fill"
    /\ pixels' = IF PixelsIsList THEN pixels ELSE Filled(pixels, Black)
    /\ wpc' = IF AfterStopFill = "show" THEN "show" ELSE "idle"
    /\ UNCHANGED <<config, dir, kind, hwMode, syncVars, leds, hw_brightness, current_program, running,
                   frame_count, last_config_check, last_config_counter, pc, spawned, now,
                   rendered, tickProg, attempts, exitCause>>
    /\ UNCHANGED <<surfaceVars, readerVars, opsDone, mapCall, probe>>

ApiStopShow ==
    /\ wpc = "show"
    /\ leds' = pixels
    /\ wpc' = "idle"
    /\ UNCHANGED <<config, dir, kind, hwMode, syncVars, pixels, hw_brightness, current_program, running,
                   frame_count, last_config_check, last_config_counter, pc, spawned, now,
                   rendered, tickProg, attempts, exitCause>>
    /\ UNCHANGED <<surfaceVars, readerVars, opsDone, mapCall, probe>>

\* api_control, action 'start': if not app.matrix.running, a new daemon thread is
\* created to run app.matrix.start()
ApiStart ==
    /\ wpc = "idle" /\ ~running
    /\ spawned = "none"
    /\ spawned' = "init"
    /\ UNCHANGED <<config, dir, kind, hwMode, syncVars, pixels, leds, hw_brightness,
                   current_program, running, frame_count, last_config_check,
                   last_config_counter, pc, wpc, now, rendered, tickProg, attempts, exitCause>>
    /\ UNCHANGED <<surfaceVars, readerVars, opsDone, mapCall, probe>>

(***************************************************************************)
(* Bookkeeping about the run, for the readers of the change-detection      *)
(* protocol: how many mark_updated() calls a checkpoint has missed, and    *)
(* the current run of back-to-back mark_updated() calls.                   *)
(***************************************************************************)
NoteOp(marked) ==
    /\ marksSince' = IF marked /\ checkpoint.taken THEN marksSince + 1 ELSE marksSince
    /\ streak' = NoStreak
    /\ UNCHANGED <<checkpoint, mapCall, probe>>

(***************************************************************************)
(* webgui/app.py api_config (POST).  A post is [vals, bad]: the posted     *)
(* fields with their converted values, and the fields whose conversion     *)
(* (float(), int()) raises.  Fields are applied in config_fields order and *)
(* the first bad one returns 400 at once.                                  *)
(***************************************************************************)
FieldOrder == <<"brightness", "gamma", "fps", "hue_offset", "saturation", "speed", "scale",
                "current_palette">>

RECURSIVE ApplyPost(_, _, _)
ApplyPost(cfg, post, i) ==
    IF i > Len(FieldOrder)
    THEN [ok |-> TRUE, cfg |-> cfg]
    ELSE LET f == FieldOrder[i]
         IN  IF f \notin DOMAIN post.vals
             THEN ApplyPost(cfg, post, i + 1)
             ELSE IF f \in post.bad
             THEN [ok |-> FALSE, cfg |-> cfg]
             ELSE ApplyPost([cfg EXCEPT ![f] = post.vals[f]], post, i + 1)

ApiConfig(post) ==
    LET r == ApplyPost(config, post, 1)
    IN  /\ DOMAIN post.vals # {}
        /\ config' = IF r.ok THEN MarkUpdated(r.cfg, now) ELSE r.cfg
        /\ hw_brightness' = IF r.ok /\ hwMode = "hw" /\ "brightness" \in DOMAIN post.vals
                            THEN post.vals["brightness"] ELSE hw_brightness
        /\ NoteOp(r.ok)
        /\ UNCHANGED <<dir, kind, hwMode, syncVars, pixels, leds, current_program, running, frame_count,
                       last_config_check, last_config_counter, pc, spawned, wpc, now,
                       rendered,
                       tickProg, attempts, exitCause, surfaceVars>>

\* api_program: app.matrix.load_program(program_name)
ApiProgram(name) ==
    /\ LET r == CallLoadProgram(name, current_program, config.current_program)
       IN  /\ current_program' = r.cur
           /\ config' = [config EXCEPT !.current_program = r.cfg]
           /\ attempts' = r.att
    /\ NoteOp(FALSE)
    /\ UNCHANGED <<engineVars, now, surfaceVars>>

\* api_palette (POST)
ApiPalette(palette_name) ==
    /\ config' = MarkUpdated([config EXCEPT !.current_palette = palette_name], now)
    /\ NoteOp(TRUE)
    /\ UNCHANGED <<current_program, attempts, engineVars, now, surfaceVars>>

(***************************************************************************)
(* Config.get_config_dict, and the web panel's presets (presets.json)      *)
(***************************************************************************)
PresetKeys(presets) == [i \in 1..Len(presets) |-> presets[i].name]

GetConfigDict(cfg) ==
    [matrix_width |-> cfg.matrix_width, matrix_height |-> cfg.matrix_height,
     serpentine_wiring |-> cfg.serpentine_wiring, brightness |-> cfg.brightness,
     gamma |-> cfg.gamma, fps |-> cfg.fps, current_program |-> cfg.current_program,
     hue_offset |-> cfg.hue_offset, saturation |-> cfg.saturation,
     current_palette |-> cfg.current_palette, speed |-> cfg.speed, scale |-> cfg.scale,
     blend_mode |-> cfg.blend_mode, available_palettes |-> DOMAIN cfg.palettes,
     presets |-> PresetKeys(cfg.presets)]

\* api_presets (POST): presets[name] = {'config': data.get('config', get_config_dict())}
ApiPresetSave(name, supplied) ==
    /\ presets_file' = [n \in (DOMAIN presets_file) \cup {name} |->
                           IF n = name THEN supplied ELSE presets_file[n]]
    /\ NoteOp(FALSE)
    /\ UNCHANGED <<config, current_program, attempts, engineVars, now, preset_index>>

\* api_preset (POST): setattr for every stored key the Config has, save, mark_updated;
\* a 'presets' key stores the list of names, which the closing get_config_dict()
\* finds not to be a dict and replaces with {}
ApplyStored(cfg, stored) ==
    [f \in DOMAIN cfg |->
        IF f \in DOMAIN stored
        THEN (IF f = "presets" THEN <<>> ELSE stored[f])
        ELSE cfg[f]]

ApiPresetLoad(name) ==
    /\ name \in DOMAIN presets_file
    /\ config' = MarkUpdated(ApplyStored(config, presets_file[name]), now)
    /\ NoteOp(TRUE)
    /\ UNCHANGED <<current_program, attempts, engineVars, now, surfaceVars>>

(***************************************************************************)
(* Config.create_preset / Config.load_preset                               *)
(***************************************************************************)
SnapFields == {"brightness", "gamma", "fps", "current_program", "hue_offset", "saturation",
               "current_palette", "speed", "scale", "blend_mode"}

Snapshot(cfg) == [f \in SnapFields |-> cfg[f]]

HasPreset(cfg, name) == \E i \in 1..Len(cfg.presets) : cfg.presets[i].name = name
PresetOf(cfg, name) ==
    cfg.presets[CHOOSE i \in 1..Len(cfg.presets) : cfg.presets[i].name = name].snap

CreatePreset(cfg, name) ==
    LET entry == [name |-> name, snap |-> Snapshot(cfg)]
    IN  IF HasPreset(cfg, name)
        THEN [cfg EXCEPT !.presets = [i \in 1..Len(cfg.presets) |->
                                         IF cfg.presets[i].name = name THEN entry
                                         ELSE cfg.presets[i]]]
        ELSE [cfg EXCEPT !.presets = Append(cfg.presets, entry)]

\* a load_preset that forgets to restore speed
LoadPresetKeepsSpeed(cfg, name) ==
    IF HasPreset(cfg, name)
    THEN [ok |-> TRUE,
          cfg |-> [f \in DOMAIN cfg |->
                      IF f \in SnapFields \ {"speed"} /\ f \in DOMAIN PresetOf(cfg, name)
                      THEN PresetOf(cfg, name)[f] ELSE cfg[f]]]
    ELSE [ok |-> FALSE, cfg |-> cfg]

LoadPreset(cfg, name) ==
    IF HasPreset(cfg, name)
    THEN [ok |-> TRUE,
          cfg |-> [f \in DOMAIN cfg |->
                      IF f \in SnapFields /\ f \in DOMAIN PresetOf(cfg, name)
                      THEN PresetOf(cfg, name)[f] ELSE cfg[f]]]
    ELSE [ok |-> FALSE, cfg |-> cfg]

(***************************************************************************)
(* hardware/buttons.py: the four buttons and their long presses.           *)
(* press_count is 1 (single), 2 (double) or more, as the press timing has  *)
(* it.  None of the handlers calls mark_updated().                         *)
(***************************************************************************)
HandleBrightnessButton(press_count) ==
    /\ config' = IF press_count = 1
                 THEN [config EXCEPT !.brightness = Min2(10, config.brightness + 1)]
                 ELSE IF press_count = 2
                 THEN [config EXCEPT !.brightness = Max2(1, config.brightness - 1)]
                 ELSE config
    /\ NoteOp(FALSE)
    /\ UNCHANGED <<current_program, attempts, engineVars, now, surfaceVars>>

HandleSpeedButton(press_count) ==
    /\ config' = IF press_count = 1
                 THEN [config EXCEPT !.speed = Min2(50, config.speed + 2)]
                 ELSE IF press_count = 2
                 THEN [config EXCEPT !.speed = Max2(1, config.speed - 2)]
                 ELSE config
    /\ NoteOp(FALSE)
    /\ UNCHANGED <<current_program, attempts, engineVars, now, surfaceVars>>

\* programs = ['cosmic'] + stems; switch to the one after config.current_program
ButtonPrograms == <<"cosmic">> \o dir
NextProgram ==
    LET hits == {i \in 1..Len(ButtonPrograms) : ButtonPrograms[i] = config.current_program}
        cur == IF hits = {} THEN 0 ELSE (CHOOSE i \in hits : \A j \in hits : i <= j) - 1
    IN  ButtonPrograms[((cur + 1) % Len(ButtonPrograms)) + 1]

HandleModeButton ==
    /\ LET r == CallLoadProgram(NextProgram, current_program, config.current_program)
       IN  /\ current_program' = r.cur
           /\ config' = [config EXCEPT !.current_program = r.cfg]
           /\ attempts' = r.att
    /\ NoteOp(FALSE)
    /\ UNCHANGED <<engineVars, now, surfaceVars>>

HandlePresetButton ==
    /\ Len(config.presets) > 0
    /\ LET next_preset_index == (preset_index + 1) % Len(config.presets)
           r == LoadPreset(config, config.presets[next_preset_index + 1].name)
       IN  /\ config' = r.cfg
           /\ preset_index' = IF r.ok THEN next_preset_index ELSE preset_index
    /\ NoteOp(FALSE)
    /\ UNCHANGED <<current_program, attempts, engineVars, now, presets_file>>

HandleLongPress(button_name) ==
    /\ button_name \in {"brightness", "mode", "speed", "preset"}
    /\ IF button_name = "mode"
       THEN LET r == CallLoadProgram(config.current_program, current_program,
                                     config.current_program)
            IN  /\ current_program' = r.cur
                /\ config' = [config EXCEPT !.current_program = r.cfg]
                /\ attempts' = r.att
       ELSE /\ config' = IF button_name = "brightness" THEN [config EXCEPT !.brightness = 5]
                         ELSE IF button_name = "speed" THEN [config EXCEPT !.speed = 10]
                         ELSE CreatePreset(config, "Quick")
            /\ UNCHANGED <<current_program, attempts>>
    /\ NoteOp(FALSE)
    /\ UNCHANGED <<engineVars, now, surfaceVars>>

(***************************************************************************)
(* Direct users of the change-detection protocol: a caller of              *)
(* mark_updated(), a reader taking its checkpoint, and the clock.          *)
(***************************************************************************)
MarkUpdatedCall ==
    /\ config' = MarkUpdated(config, now)
    /\ marksSince' = IF checkpoint.taken THEN marksSince + 1 ELSE marksSince
    /\ streak' = IF streak.n = 0
                 THEN [n |-> 1, base |-> config.update_counter, t |-> now,
                       settings |-> Settings(config)]
                 ELSE [streak EXCEPT !.n = streak.n + 1, !.t = now]
    /\ UNCHANGED <<checkpoint, current_program, attempts, engineVars, now, surfaceVars,
                   mapCall, probe>>

TakeCheckpoint ==
    /\ checkpoint' = [taken |-> TRUE, t |-> now, c |-> config.update_counter]
    /\ marksSince' = 0
    /\ UNCHANGED <<config, current_program, attempts, engineVars, now, surfaceVars, streak,
                   opsDone, mapCall, probe>>

ClockTick ==
    /\ now < MaxTime
    /\ now' = now + 1
    /\ UNCHANGED <<config, current_program, attempts, engineVars, surfaceVars, readerVars,
                   opsDone, mapCall, probe>>

(***************************************************************************)
(* Config.xy_to_index / Config.index_to_xy                                 *)
(***************************************************************************)
\* an xy_to_index that treats every row as left to right
XyToIndexRowMajor(cfg, x, y) ==
    y * cfg.matrix_width + x

XyToIndex(cfg, x, y) ==
    IF cfg.serpentine_wiring
    THEN IF y % 2 = 0
         THEN y * cfg.matrix_width + x
         ELSE y * cfg.matrix_width + (cfg.matrix_width - 1 - x)
    ELSE y * cfg.matrix_width + x

\* an index_to_xy that forgets the reversed rows
IndexToXyStraight(cfg, index) ==
    <<index % cfg.matrix_width, index \div cfg.matrix_width>>

IndexToXy(cfg, index) ==
    LET y == index \div cfg.matrix_width
        x == index % cfg.matrix_width
    IN  IF cfg.serpentine_wiring /\ y % 2 = 1
        THEN <<cfg.matrix_width - 1 - x, y>>
        ELSE <<x, y>>

\* xy_to_index(x, y), then index_to_xy of the result
MapXY(x, y) ==
    /\ LET i == XyToIndex(config, x, y)
           p == IndexToXy(config, i)
       IN  mapCall' = [op |-> "xy", x |-> x, y |-> y, index |-> i,
                       rx |-> p[1], ry |-> p[2], rindex |-> i]
    /\ UNCHANGED <<config, current_program, attempts, now, engineVars, surfaceVars,
                   readerVars, opsDone, probe>>

\* index_to_xy(index), then xy_to_index of the result
MapIndex(index) ==
    /\ LET p == IndexToXy(config, index)
       IN  mapCall' = [op |-> "index", x |-> p[1], y |-> p[2], index |-> index,
                       rx |-> p[1], ry |-> p[2], rindex |-> XyToIndex(config, p[1], p[2])]
    /\ UNCHANGED <<config, current_program, attempts, now, engineVars, surfaceVars,
                   readerVars, opsDone, probe>>

(***************************************************************************)
(* The engine run: one start() of the render loop, with the web thread     *)
(* stopping it, setting the frame rate and switching programs meanwhile.   *)
(***************************************************************************)
SetFps ==
    /\ config.update_counter < MaxUpdates
    /\ \E v \in FpsValues : ApiConfig([vals |-> [fps |-> v], bad |-> {}])
    /\ UNCHANGED opsDone

SwitchProgram ==
    /\ \E n \in Names : ApiProgram(n)
    /\ UNCHANGED opsDone

Next ==
    \/ Start("main")
    \/ TickRenderOk("main")
    \/ TickRenderRaises("main")
    \/ TickBlank("main")
    \/ TickPace("main")
    \/ LoopExit("main")
    \/ Signal
    \/ StopFlag("main")
    \/ StopFill("main")
    \/ StopShow("main")
    \/ ApiStop
    \/ ApiStopFill
    \/ ApiStopShow
    \/ SetFps
    \/ SwitchProgram

Spec == Init /\ [][Next]_vars

(***************************************************************************)
(* The configuration run: control-surface and button operations on the     *)
(* shared Config, with a reader of the change-detection protocol.          *)
(***************************************************************************)
Posts ==
    { [vals |-> [brightness |-> 8], bad |-> {}],
      [vals |-> [fps |-> 0], bad |-> {}],
      [vals |-> [brightness |-> 2, fps |-> 0], bad |-> {"fps"}],
      [vals |-> [speed |-> 20, current_palette |-> "fire"], bad |-> {}] }

StoredPreset ==
    [name |-> "p1",
     snap |-> [brightness |-> 3, gamma |-> 22, fps |-> 30, current_program |-> "b",
               hue_offset |-> 0, saturation |-> 10, current_palette |-> "ocean",
               speed |-> 10, scale |-> 10, blend_mode |-> "normal"]]

InitConfig ==
    /\ now = 0
    /\ dir = <<"a", "b">>
    /\ kind = [n \in Names |-> "good"]
    /\ hwMode \in {"hw", "nolib"}
    /\ \E presets \in {<<>>, <<StoredPreset>>} :
          EngineInit(DefaultConfig(NumPixels, 1, "a", presets))
    /\ SurfaceInit

Counted(op) ==
    /\ opsDone < MaxOps
    /\ opsDone' = opsDone + 1
    /\ op

NextConfig ==
    \/ ClockTick
    \/ TakeCheckpoint
    \/ Counted(MarkUpdatedCall)
    \/ \E post \in Posts : Counted(ApiConfig(post))
    \/ \E n \in {"b", "c"} : Counted(ApiProgram(n))
    \/ Counted(ApiPalette("fire"))
    \/ \E supplied \in {GetConfigDict(config), [speed |-> 30, matrix_width |-> NumPixels + 1]} :
          Counted(ApiPresetSave("w1", supplied))
    \/ Counted(ApiPresetLoad("w1"))
    \/ \E press_count \in 1..3 : Counted(HandleBrightnessButton(press_count))
    \/ \E press_count \in 1..3 : Counted(HandleSpeedButton(press_count))
    \/ Counted(HandleModeButton)
    \/ Counted(HandlePresetButton)
    \/ \E b \in {"brightness", "mode", "speed", "preset"} : Counted(HandleLongPress(b))

SpecConfig == InitConfig /\ [][NextConfig]_vars

(***************************************************************************)
(* The mapping run: every geometry and wiring, every coordinate and index. *)
(***************************************************************************)
\* the small matrices, and the 10x10 matrix of Config.__init__
DefaultSide == 10
Geometries == ((1..MaxWidth) \X (1..MaxHeight)) \cup {<<DefaultSide, DefaultSide>>}

InitMap ==
    /\ now = 0
    /\ dir = <<"a">>
    /\ kind = [n \in Names |-> "good"]
    /\ hwMode = "nolib"
    /\ \E g \in Geometries, s \in BOOLEAN :
          EngineInit([DefaultConfig(g[1], g[2], "a", <<>>) EXCEPT !.serpentine_wiring = s])
    /\ SurfaceInit

NextMap ==
    \/ \E x \in 0..(config.matrix_width - 1), y \in 0..(config.matrix_height - 1) : MapXY(x, y)
    \/ \E i \in 0..(config.matrix_width * config.matrix_height - 1) : MapIndex(i)

SpecMap == InitMap /\ [][NextMap]_vars

(***************************************************************************)
(* Config.load_settings: the part that reads current_palette, palettes and *)
(* presets from settings.json (a key the file lacks keeps its default).    *)
(* A value's kind is "absent", "dict", or "other" for any non-mapping.     *)
(***************************************************************************)
UpdateTable(table, extra) ==
    [n \in (DOMAIN table) \cup (DOMAIN extra) |->
        IF n \in DOMAIN extra THEN extra[n] ELSE table[n]]

LoadSettings(cfg, data) ==
    [cfg EXCEPT
        !.current_palette = IF data.has_current_palette THEN data.current_palette ELSE @,
        !.palettes = IF data.palettes_kind = "dict" THEN UpdateTable(@, data.palettes) ELSE @,
        !.presets = IF data.presets_kind = "dict" THEN data.presets ELSE <<>>]

PaletteColors == {<<255, 0, 0>>, <<0, 0, 255>>}
RECURSIVE SeqsUpTo(_, _)
SeqsUpTo(S, n) ==
    IF n = 0 THEN {<<>>}
    ELSE LET shorter == SeqsUpTo(S, n - 1)
         IN  shorter \cup {Append(q, c) : q \in {r \in shorter : Len(r) = n - 1}, c \in S}
CustomPalettes == SeqsUpTo(PaletteColors, MaxPaletteLen)

FilePalettes ==
    {[palettes_kind |-> k, palettes |-> <<>>] : k \in {"absent", "other"}}
    \cup {[palettes_kind |-> "dict", palettes |-> [n \in {name} |-> p]] :
             name \in {"custom", "rainbow"}, p \in CustomPalettes}

FileData ==
    {[has_current_palette |-> h, current_palette |-> "custom",
      palettes_kind |-> fp.palettes_kind, palettes |-> fp.palettes,
      presets_kind |-> pk, presets |-> IF pk = "dict" THEN <<StoredPreset>> ELSE <<>>] :
        h \in BOOLEAN, fp \in FilePalettes, pk \in {"absent", "dict", "other"}}

\* Config.__init__ calling load_settings(), before any caller has the Config
LoadSettingsCall(data) ==
    /\ probe.fn = "none" /\ opsDone = 0
    /\ config' = LoadSettings(config, data)
    /\ probe' = [fn |-> "load_settings", data |-> data, raised |-> FALSE]
    /\ UNCHANGED <<current_program, attempts, now, engineVars, surfaceVars, readerVars,
                   opsDone, mapCall>>

\* a program asking for get_palette_color(n / PosDen)
PaletteCall(n) ==
    /\ probe' = [fn |-> "palette", n |-> n, current |-> config.current_palette,
                 table |-> config.palettes, got |-> GetPaletteColor(config, n)]
    /\ UNCHANGED <<config, current_program, attempts, now, engineVars, surfaceVars,
                   readerVars, opsDone, mapCall>>

(***************************************************************************)
(* The palette run: the Config as constructed over a settings file, then   *)
(* palette lookups, with presets saved and loaded through the web panel.   *)
(***************************************************************************)
SuppliedConfigs ==
    { [current_palette |-> "custom", palettes |-> [n \in {"custom"} |-> <<White>>]],
      [current_palette |-> "gone"] }

InitPalette ==
    /\ now = 0
    /\ dir = <<"a">>
    /\ kind = [n \in Names |-> "good"]
    /\ hwMode = "nolib"
    /\ EngineInit(DefaultConfig(NumPixels, 1, "a", <<>>))
    /\ SurfaceInit

NextPalette ==
    \/ \E data \in FileData : LoadSettingsCall(data)
    \/ \E n \in 0..PosDen : PaletteCall(n)
    \/ \E supplied \in SuppliedConfigs : Counted(ApiPresetSave("w1", supplied))
    \/ Counted(ApiPresetLoad("w1"))

SpecPalette == InitPalette /\ [][NextPalette]_vars

(***************************************************************************)
(* LEDMatrix.safe_color.  Animations pass ints or floats: a component is   *)
(* kept in halves (h stands for h / 2), so int() has something to cut.     *)
(***************************************************************************)
Halves == 2

\* a clamp that forgets the lower limit
SafeByteUpperOnly(h) == Min2(255 * Halves, h) \div Halves

\* int(max(0, min(255, c)))
SafeByte(h) == Max2(0, Min2(255 * Halves, h)) \div Halves

SafeColor(r, g, b) == <<SafeByte(r), SafeByte(g), SafeByte(b)>>

\* components tried: -5, 0, 0.5, 127.5, 128, 255, 255.5, 300
Components == {-10, 0, 1, 255, 256, 510, 511, 600}

\* safe_color(r, g, b), then safe_color of its result
SafeColorCall(r, g, b) ==
    /\ LET out == SafeColor(r, g, b)
       IN  probe' = [fn |-> "safe_color", in |-> <<r, g, b>>, out |-> out,
                     again |-> SafeColor(out[1] * Halves, out[2] * Halves, out[3] * Halves)]
    /\ UNCHANGED <<config, current_program, attempts, now, engineVars, surfaceVars,
                   readerVars, opsDone, mapCall>>

NextColor == \E r \in Components, g \in Components, b \in Components : SafeColorCall(r, g, b)

SpecColor == InitPalette /\ [][NextColor]_vars

(***************************************************************************)
(* LEDMatrix.start, the pacing of one tick after another: start_time at    *)
(* the top of the tick, the tick's work, then the sleep.  Time is counted  *)
(* in units of 1/TicksPerSecond s; probe keeps the loop's timing locals    *)
(* and, for the record, how long the tick's own work took.                 *)
(***************************************************************************)
TicksPerSecond == 60
MaxPaceTicks == 3        \* ticks explored per pacing run
MaxWork == 5             \* longest tick body explored, in time units

PaceFps == {0, 15, 30, 60}

\* 1.0 / self.config.fps
Budget(cfg) == TicksPerSecond \div cfg.fps

\* a start_time that keeps to the schedule of the previous tick
TickStartOnSchedule(cfg, prev_start, t) == IF prev_start < 0 THEN t ELSE prev_start + Budget(cfg)

\* start_time = time.time()
TickStart(cfg, prev_start, t) == t

\* elapsed = time.time() - start_time; sleep_time = max(0, (1.0 / fps) - elapsed)
SleepTime(cfg, start_time, t) == Max2(0, Budget(cfg) - (t - start_time))

PaceBegin ==
    /\ \/ probe.fn = "none"
       \/ probe.fn = "pace" /\ probe.phase = "slept" /\ probe.tick < MaxPaceTicks
    /\ probe' = [fn |-> "pace", phase |-> "body",
                 tick |-> IF probe.fn = "none" THEN 1 ELSE probe.tick + 1,
                 start_time |-> TickStart(config, IF probe.fn = "none" THEN -1
                                                  ELSE probe.start_time, now),
                 worked |-> 0, sleep |-> 0,
                 deficit |-> IF probe.fn = "none" THEN FALSE
                             ELSE probe.deficit \/ probe.worked > Budget(config)]
    /\ UNCHANGED <<config, current_program, attempts, now, engineVars, surfaceVars,
                   readerVars, opsDone, mapCall>>

\* check_config_updates, animate, show, the frame counters: d time units
PaceWork(d) ==
    /\ probe.fn = "pace" /\ probe.phase = "body"
    /\ now' = now + d
    /\ probe' = [probe EXCEPT !.phase = "worked", !.worked = d]
    /\ UNCHANGED <<config, current_program, attempts, engineVars, surfaceVars,
                   readerVars, opsDone, mapCall>>

PaceSleep ==
    /\ probe.fn = "pace" /\ probe.phase = "worked"
    /\ IF PaceRaises
       THEN /\ probe' = [probe EXCEPT !.phase = "raised"]
            /\ UNCHANGED now
       ELSE LET sleep_time == SleepTime(config, probe.start_time, now)
            IN  /\ probe' = [probe EXCEPT !.phase = "slept", !.sleep = sleep_time]
                /\ now' = now + sleep_time
    /\ UNCHANGED <<config, current_program, attempts, engineVars, surfaceVars,
                   readerVars, opsDone, mapCall>>

InitPace ==
    /\ now = 0
    /\ dir = <<"a">>
    /\ kind = [n \in Names |-> "good"]
    /\ hwMode = "nolib"
    /\ \E f \in PaceFps : EngineInit([DefaultConfig(NumPixels, 1, "a", <<>>) EXCEPT !.fps = f])
    /\ SurfaceInit

NextPace ==
    \/ PaceBegin
    \/ \E d \in 0..MaxWork : PaceWork(d)
    \/ PaceSleep

SpecPace == InitPace /\ [][NextPace]_vars

(***************************************************************************)
(* The preset run: create_preset, operations that change the captured      *)
(* fields, load_preset.  probe remembers what the last create_preset       *)
(* captured, and what the last load_preset returned and left behind.       *)
(***************************************************************************)
LastCapture ==
    IF probe.fn = "preset" THEN [name |-> probe.name, captured |-> probe.captured]
    ELSE [name |-> "", captured |-> <<>>]

CreatePresetCall(name) ==
    /\ config' = CreatePreset(config, name)
    /\ probe' = [fn |-> "preset", phase |-> "created", name |-> name,
                 captured |-> [f \in SnapFields |-> config[f]],
                 loaded |-> "", ok |-> FALSE, before |-> config, after |-> config']
    /\ UNCHANGED <<current_program, attempts, now, engineVars, surfaceVars, readerVars,
                   mapCall>>

LoadPresetCall(name) ==
    /\ LET r == LoadPreset(config, name)
       IN  /\ config' = r.cfg
           /\ probe' = [fn |-> "preset", phase |-> "loaded", name |-> LastCapture.name,
                        captured |-> LastCapture.captured,
                        loaded |-> name, ok |-> r.ok, before |-> config, after |-> r.cfg]
    /\ UNCHANGED <<current_program, attempts, now, engineVars, surfaceVars, readerVars,
                   mapCall>>

NextPreset ==
    \/ Counted(CreatePresetCall("Quick"))
    \/ \E name \in {"Quick", "p1", "nope"} : Counted(LoadPresetCall(name))
    \/ \E post \in Posts : Counted(ApiConfig(post))
    \/ Counted(ApiPalette("fire"))
    \/ Counted(ApiProgram("b"))
    \/ \E press_count \in 1..2 : Counted(HandleSpeedButton(press_count))

SpecPreset == InitConfig /\ [][NextPreset]_vars

(***************************************************************************)
(* The change-detection protocol between threads.  No lock guards the      *)
(* Config, so a thread can be observed between any two of its attribute    *)
(* reads and writes.  check_config_updates on the loop thread, in steps:   *)
(* has_updates; read config.brightness; assign pixels.brightness;          *)
(* last_config_check; last_config_counter.                                 *)
(***************************************************************************)
\* if self.config.has_updates(self.last_config_check, self.last_config_counter):
PollHasUpdates ==
    /\ poll.at = "idle"
    /\ ConfigChanged
    /\ poll' = [poll EXCEPT !.at = IF hwMode = "hw" THEN "read" ELSE "time"]
    /\ UNCHANGED <<config, current_program, attempts, now, dir, kind, hwMode, writers, pixels,
                   leds, hw_brightness, running, frame_count, last_config_check,
                   last_config_counter, pc, spawned, wpc, rendered, tickProg, exitCause,
                   surfaceVars, readerVars, opsDone, mapCall, probe>>

\* the right-hand side of self.pixels.brightness = self.config.brightness
PollRead ==
    /\ poll.at = "read"
    /\ poll' = [at |-> "push", brightness |-> config.brightness]
    /\ UNCHANGED <<config, current_program, attempts, now, dir, kind, hwMode, writers, pixels,
                   leds, hw_brightness, running, frame_count, last_config_check,
                   last_config_counter, pc, spawned, wpc, rendered, tickProg, exitCause,
                   surfaceVars, readerVars, opsDone, mapCall, probe>>

\* the assignment: NeoPixel's brightness setter
PollPush ==
    /\ poll.at = "push"
    /\ hw_brightness' = poll.brightness
    /\ poll' = [poll EXCEPT !.at = "time"]
    /\ UNCHANGED <<config, current_program, attempts, now, dir, kind, hwMode, writers, pixels,
                   leds, running, frame_count, last_config_check,
                   last_config_counter, pc, spawned, wpc, rendered, tickProg, exitCause,
                   surfaceVars, readerVars, opsDone, mapCall, probe>>

\* self.last_config_check = time.time()
PollRefreshTime ==
    /\ poll.at = "time"
    /\ last_config_check' = now
    /\ poll' = [poll EXCEPT !.at = "counter"]
    /\ UNCHANGED <<config, current_program, attempts, now, dir, kind, hwMode, writers, pixels,
                   leds, hw_brightness, running, frame_count,
                   last_config_counter, pc, spawned, wpc, rendered, tickProg, exitCause,
                   surfaceVars, readerVars, opsDone, mapCall, probe>>

\* a refresh that acknowledges the updates in the store itself
PollRefreshCounterConsuming ==
    /\ poll.at = "counter"
    /\ last_config_counter' = 0
    /\ config' = [config EXCEPT !.update_counter = 0]
    /\ poll' = NoPoll
    /\ UNCHANGED <<current_program, attempts, now, dir, kind, hwMode, writers, pixels,
                   leds, hw_brightness, running, frame_count, last_config_check,
                   pc, spawned, wpc, rendered, tickProg, exitCause,
                   surfaceVars, readerVars, opsDone, mapCall, probe>>

\* self.last_config_counter = self.config._update_counter
PollRefreshCounter ==
    /\ poll.at = "counter"
    /\ last_config_counter' = config.update_counter
    /\ poll' = NoPoll
    /\ UNCHANGED <<config, current_program, attempts, now, dir, kind, hwMode, writers, pixels,
                   leds, hw_brightness, running, frame_count, last_config_check,
                   pc, spawned, wpc, rendered, tickProg, exitCause,
                   surfaceVars, readerVars, opsDone, mapCall, probe>>

(***************************************************************************)
(* api_config on a web request thread w, for a post of brightness alone:   *)
(* setattr and save_settings; mark_updated, whose += reads the counter and *)
(* then stores it; the immediate hardware update.                          *)
(***************************************************************************)
ApiConfigSet(w, value) ==
    /\ writers[w].at = "idle"
    /\ config' = [config EXCEPT !.brightness = value]
    /\ writers' = [writers EXCEPT ![w] = [at |-> "mark_time", value |-> value, counter |-> 0]]
    /\ UNCHANGED <<current_program, attempts, now, dir, kind, hwMode, poll, pixels,
                   leds, hw_brightness, running, frame_count, last_config_check,
                   last_config_counter, pc, spawned, wpc, rendered, tickProg, exitCause,
                   surfaceVars, readerVars, mapCall, probe>>

\* self._last_modified = time.time()
MarkTime(w) ==
    /\ writers[w].at = "mark_time"
    /\ config' = [config EXCEPT !.last_modified = now]
    /\ writers' = [writers EXCEPT ![w].at = "mark_read"]
    /\ UNCHANGED <<current_program, attempts, now, dir, kind, hwMode, poll, pixels,
                   leds, hw_brightness, running, frame_count, last_config_check,
                   last_config_counter, pc, spawned, wpc, rendered, tickProg, exitCause,
                   surfaceVars, readerVars, opsDone, mapCall, probe>>

\* self._update_counter += 1: the load
MarkRead(w) ==
    /\ writers[w].at = "mark_read"
    /\ writers' = [writers EXCEPT ![w].at = "mark_store", ![w].counter = config.update_counter]
    /\ UNCHANGED <<config, current_program, attempts, now, dir, kind, hwMode, poll, pixels,
                   leds, hw_brightness, running, frame_count, last_config_check,
                   last_config_counter, pc, spawned, wpc, rendered, tickProg, exitCause,
                   surfaceVars, readerVars, opsDone, mapCall, probe>>

\* self._update_counter += 1: the store
MarkStore(w) ==
    /\ writers[w].at = "mark_store"
    /\ config' = [config EXCEPT !.update_counter = writers[w].counter + 1]
    /\ writers' = [writers EXCEPT ![w].at = "push", ![w].counter = 0]
    /\ marksSince' = IF checkpoint.taken THEN marksSince + 1 ELSE marksSince
    /\ UNCHANGED <<current_program, attempts, now, dir, kind, hwMode, poll, pixels,
                   leds, hw_brightness, running, frame_count, last_config_check,
                   last_config_counter, pc, spawned, wpc, rendered, tickProg, exitCause,
                   surfaceVars, checkpoint, streak, opsDone, mapCall, probe>>

\* app.matrix.pixels.brightness = config_updates['brightness']
ApiConfigPush(w) ==
    /\ writers[w].at = "push"
    /\ hw_brightness' = IF hwMode = "hw" THEN writers[w].value ELSE hw_brightness
    /\ writers' = [writers EXCEPT ![w] = IdleWriter]
    /\ UNCHANGED <<config, current_program, attempts, now, dir, kind, hwMode, poll, pixels,
                   leds, running, frame_count, last_config_check,
                   last_config_counter, pc, spawned, wpc, rendered, tickProg, exitCause,
                   surfaceVars, readerVars, opsDone, mapCall, probe>>

(***************************************************************************)
(* The protocol run: the loop polling, two request threads posting         *)
(* brightness, and the clock.                                              *)
(***************************************************************************)
PostedBrightness == {2, 8}

InitSync ==
    /\ now = 0
    /\ dir = <<"a">>
    /\ kind = [n \in Names |-> "good"]
    /\ hwMode \in {"hw", "nolib"}
    /\ EngineInit(DefaultConfig(NumPixels, 1, "a", <<>>))
    /\ SurfaceInit

PollStep ==
    \/ PollHasUpdates
    \/ PollRead
    \/ PollPush
    \/ PollRefreshTime
    \/ PollRefreshCounter

RequestStep(w) ==
    \/ MarkTime(w)
    \/ MarkRead(w)
    \/ MarkStore(w)
    \/ ApiConfigPush(w)

NextSync ==
    \/ PollStep
    \/ \E w \in Writers : RequestStep(w)
    \/ \E w \in Writers, value \in PostedBrightness : Counted(ApiConfigSet(w, value))
    \/ ClockTick

SpecSync == InitSync /\ [][NextSync]_vars

\* every thread that can take a step is eventually scheduled
SpecSyncFair ==
    /\ SpecSync
    /\ WF_vars(PollStep)
    /\ \A w \in Writers : WF_vars(RequestStep(w))

(***************************************************************************)
(* The readers' run: the loop polling and a second reader (a status        *)
(* display) keeping a checkpoint of its own, against callers that mark.    *)
(***************************************************************************)
NextReaders ==
    \/ PollStep
    \/ TakeCheckpoint
    \/ ClockTick
    \/ Counted(MarkUpdatedCall)
    \/ \E post \in Posts : Counted(ApiConfig(post))

SpecReaders == InitSync /\ [][NextReaders]_vars

(***************************************************************************)
(* The control run: start and stop requests from the web panel while the   *)
(* thread that main() put into start() is looping.                         *)
(***************************************************************************)
InitControl ==
    /\ now = 0
    /\ dir = <<"a">>
    /\ kind \in {k \in [Names -> {"good", "renderfail"}] : k["b"] = "good" /\ k["c"] = "good"}
    /\ hwMode \in {"hw", "nolib"}
    /\ EngineInit(DefaultConfig(NumPixels, 1, "a", <<>>))
    /\ SurfaceInit

NextControl ==
    \/ \E t \in LoopThreads : Start(t)
    \/ \E t \in LoopThreads : TickRenderOk(t)
    \/ \E t \in LoopThreads : TickRenderRaises(t)
    \/ \E t \in LoopThreads : TickBlank(t)
    \/ \E t \in LoopThreads : TickPace(t)
    \/ \E t \in LoopThreads : LoopExit(t)
    \/ \E t \in LoopThreads : StopFlag(t)
    \/ \E t \in LoopThreads : StopFill(t)
    \/ \E t \in LoopThreads : StopShow(t)
    \/ ApiStart
    \/ ApiStop
    \/ ApiStopFill
    \/ ApiStopShow

SpecControl == InitControl /\ [][NextControl]_vars

(***************************************************************************)
(* The fallback run: the loop alone, ticking for ever over a directory of  *)
(* up to three candidates, each of which either always or never raises.    *)
(* The frame counter is kept only up to MaxFrames - 1 (no outcome of a     *)
(* tick depends on it), so the run does not end at the frame bound.        *)
(***************************************************************************)
TickPaceOn(t) ==
    /\ At(t) = "pace"
    /\ frame_count' = Min2(frame_count + 1, MaxFrames - 1)
    /\ rendered' = "idle"
    /\ IF PaceRaises
       THEN /\ Goto(t, "stop_a")
            /\ exitCause' = "error"
       ELSE /\ Goto(t, "top")
            /\ UNCHANGED exitCause
    /\ UNCHANGED <<config, dir, kind, hwMode, syncVars, pixels, leds, hw_brightness,
                   current_program, running, last_config_check, last_config_counter, wpc,
                   now, tickProg, attempts>>
    /\ UNCHANGED <<surfaceVars, readerVars, opsDone, mapCall, probe>>

InitLive ==
    /\ now = 0
    /\ dir \in {<<"a">>, <<"a", "b">>, <<"a", "b", "c">>}
    /\ kind \in {k \in [Names -> {"good", "renderfail", "loadfail"}] :
                    \A n \in Names : ~InDir(n) => k[n] = "good"}
    /\ hwMode \in {"hw", "nolib"}
    /\ EngineInit(DefaultConfig(NumPixels, 1, "a", <<>>))
    /\ SurfaceInit

NextLive ==
    \/ Start("main")
    \/ TickRenderOk("main")
    \/ TickRenderRaises("main")
    \/ TickBlank("main")
    \/ TickPaceOn("main")

\* the loop thread is scheduled for as long as it has a step to take
SpecLive == InitLive /\ [][NextLive]_vars /\ WF_vars(NextLive)

(***************************************************************************)
(* Properties                                                              *)
(***************************************************************************)
NoOtherCandidate == \A i \in 1..Len(dir) : dir[i] = current_program
RenderRaisesStep == rendered = "idle" /\ rendered' = "raised"

\* C1: when the active program's render call raises and the directory holds no other
\* candidate, the tick goes on to its pacing step with no active program and the
\* engine still running.
RenderFailureLeavesNoProgram ==
    [][(RenderRaisesStep /\ NoOtherCandidate)
          => (current_program' = NoProgram /\ running' /\ pc' = "pace")]_vars

RenderFailureLeavesNoProgramSeen ==
    /\ rendered = "raised" /\ pc = "pace" /\ running
    /\ Len(dir) = 1 /\ dir[1] = tickProg
    /\ attempts = <<>>
    /\ current_program = NoProgram

\* C2: after the render call of program P raises, the program that is active when the
\* fallback finishes is never P.
FallbackExcludesFailed ==
    [][RenderRaisesStep => current_program' # current_program]_vars

\* C3: within one resolution pass of load_program, no candidate name is attempted
\* again after it has failed to load (attempts lists the pass's imports in order).
NoCandidateRetried ==
    \A i, j \in 1..Len(attempts) : i # j => attempts[i] # attempts[j]

\* C4: at the end of a tick whose render call returned normally, every entry of the
\* pixel buffer is a triple of integers in [0,255], with hardware and without.
RenderedPixelsValid ==
    rendered = "ok" => \A i \in 1..Len(pixels) : ValidPixel(pixels[i])

\* C5: has_updates(t, c) for a checkpoint (t, c) is false while no mark_updated() has
\* occurred since the checkpoint was taken, and true once at least one has.
CheckpointDetectsMarks ==
    checkpoint.taken =>
        (HasUpdates(config, checkpoint.t, checkpoint.c) <=> marksSince > 0)

CheckpointDetectsMarksSeen ==
    /\ checkpoint.taken /\ marksSince > 0
    /\ config.last_modified = checkpoint.t
    /\ opsDone > marksSince

\* C6: k successive mark_updated() calls increase update_counter by exactly k, leave
\* last_modified at the time of the last call, and change no other field.
SuccessiveMarksCount ==
    streak.n >= 1 =>
        /\ config.update_counter = streak.base + streak.n
        /\ config.last_modified = streak.t
        /\ Settings(config) = streak.settings

SuccessiveMarksCountSeen ==
    /\ streak.n >= 2 /\ streak.base >= 1
    /\ streak.t >= 1 /\ now > streak.t

\* C7: every control-surface or button operation that changes the configuration or
\* switches the program calls mark_updated() before it returns.
EveryMutationMarked ==
    [][(Settings(config)' # Settings(config) \/ current_program' # current_program)
          => config'.update_counter = config.update_counter + 1]_vars

OnlyStopOrSignalEndsLoop == exitCause # "error"

\* C10: xy_to_index and index_to_xy are mutually inverse on a width x height matrix,
\* for serpentine and progressive wiring.
MappingsInverse ==
    /\ mapCall.op = "xy" => (mapCall.rx = mapCall.x /\ mapCall.ry = mapCall.y)
    /\ mapCall.op = "index" => mapCall.rindex = mapCall.index
    /\ mapCall.op # "none" =>
          /\ mapCall.index \in 0..(config.matrix_width * config.matrix_height - 1)
          /\ mapCall.x \in 0..(config.matrix_width - 1)
          /\ mapCall.y \in 0..(config.matrix_height - 1)

MappingsInverseSeen ==
    /\ mapCall.op = "xy" /\ config.serpentine_wiring
    /\ mapCall.y % 2 = 1 /\ mapCall.x = 0 /\ config.matrix_width = MaxWidth
    /\ mapCall.index = mapCall.y * config.matrix_width + config.matrix_width - 1


\* C11: xy_to_index(x, y) is y*width + x on every row under progressive wiring and on
\* even rows under serpentine wiring, and y*width + (width-1-x) on odd serpentine rows;
\* on the 10x10 serpentine matrix (0,0) -> 0, (9,0) -> 9, (5,0) -> 5, (0,1) -> 19.
XyToIndexByRow ==
    mapCall.op = "xy" =>
        /\ (~config.serpentine_wiring \/ mapCall.y % 2 = 0)
              => mapCall.index = mapCall.y * config.matrix_width + mapCall.x
        /\ (config.serpentine_wiring /\ mapCall.y % 2 = 1)
              => mapCall.index = mapCall.y * config.matrix_width
                                   + (config.matrix_width - 1 - mapCall.x)
        /\ (config.serpentine_wiring /\ config.matrix_width = 10 /\ config.matrix_height = 10)
              => /\ (mapCall.x = 0 /\ mapCall.y = 0) => mapCall.index = 0
                 /\ (mapCall.x = 9 /\ mapCall.y = 0) => mapCall.index = 9
                 /\ (mapCall.x = 5 /\ mapCall.y = 0) => mapCall.index = 5
                 /\ (mapCall.x = 0 /\ mapCall.y = 1) => mapCall.index = 19

XyToIndexByRowSeen ==
    /\ mapCall.op = "xy" /\ config.serpentine_wiring
    /\ config.matrix_width = 10 /\ config.matrix_height = 10
    /\ mapCall.x = 0 /\ mapCall.y = 1 /\ mapCall.index = 19


\* the palette a get_palette_color call was made on: the current palette's entry in the
\* table, or the rainbow entry when the current name has none
ProbedPalette ==
    IF probe.current \in DOMAIN probe.table THEN probe.table[probe.current]
    ELSE IF "rainbow" \in DOMAIN probe.table THEN probe.table["rainbow"]
    ELSE <<>>

\* C12: for every palette of two or more colors, get_palette_color(0.0) is exactly the
\* first entry and get_palette_color(1.0) is exactly the last entry.
PaletteEndpointsExact ==
    (probe.fn = "palette" /\ Len(ProbedPalette) >= 2 /\ ~probe.got.raised) =>
        /\ probe.n = 0 => probe.got.color = ProbedPalette[1]
        /\ probe.n = PosDen => probe.got.color = ProbedPalette[Len(ProbedPalette)]


\* C13: get_palette_color returns white for an empty palette and the sole entry of a
\* single-color palette, for every position in [0,1], and raises in neither case.
PaletteDegenerateCases ==
    (probe.fn = "palette" /\ probe.current \in DOMAIN probe.table
       /\ Len(probe.table[probe.current]) <= 1) =>
        /\ ~probe.got.raised
        /\ probe.got.color = IF Len(probe.table[probe.current]) = 0 THEN White
                              ELSE probe.table[probe.current][1]


\* C14: loading persisted settings whose 'palettes' value is not a mapping does not
\* raise and leaves the configuration with an empty palette table.
NonMappingPalettesEmptyTable ==
    (probe.fn = "load_settings" /\ probe.data.palettes_kind = "other" /\ opsDone = 0) =>
        /\ ~probe.raised
        /\ DOMAIN config.palettes = {}


\* C15: safe_color maps each component to min(255, max(0, component)) as an integer,
\* so (300,-5,128) yields (255,0,128), and clamping a clamped triple changes nothing.
SafeColorClampsOnce ==
    probe.fn = "safe_color" =>
        /\ \A k \in 1..3 :
              probe.out[k] = IF probe.in[k] < 0 THEN 0
                             ELSE IF probe.in[k] > 255 * Halves THEN 255
                             ELSE probe.in[k] \div Halves
        /\ probe.in = <<300 * Halves, (-5) * Halves, 128 * Halves>> => probe.out = <<255, 0, 128>>
        /\ probe.again = probe.out

SafeColorClampsOnceSeen ==
    /\ probe.fn = "safe_color"
    /\ probe.in = <<300 * Halves, (-5) * Halves, 128 * Halves>>
    /\ probe.out = <<255, 0, 128>> /\ probe.again = <<255, 0, 128>>


\* a tick's call of animate(pixels, config, frame_count), returning or raising
AnimateStep == rendered = "idle" /\ rendered' \in {"ok", "raised"}

\* C16: the frame number passed to a program's render entry point is 0 on the first
\* call after that program became the active one (initial load, switch or fallback),
\* and grows by exactly 1 on each following call. A call to a program other than the
\* one the previous rendering tick called is such a first call.
FrameNumberStartsAtActivation ==
    [][(AnimateStep /\ tickProg # current_program) => frame_count = 0]_vars


\* C17: at the end of each tick the engine sleeps for max(0, 1/target_fps - elapsed),
\* elapsed being the duration of that tick alone: the sleep is never negative, and a
\* tick that overran its budget does not shorten the sleep of a later tick.
SleepIsPerTick ==
    (probe.fn = "pace" /\ probe.phase = "slept") =>
        /\ probe.sleep >= 0
        /\ probe.sleep = Max2(0, (TicksPerSecond \div config.fps) - probe.worked)

SleepIsPerTickSeen ==
    /\ probe.fn = "pace" /\ probe.phase = "slept"
    /\ probe.deficit /\ probe.tick >= 2
    /\ config.fps = 30 /\ probe.worked = 1 /\ probe.sleep = 1


\* C18: when hardware initialisation fails or no hardware library is present, the pixel
\* buffer is an in-memory list of width*height triples, and neither a tick nor stop()
\* invokes a hardware method (show, fill, brightness assignment) on it or raises
\* because the method is missing.
SimulationNeverTouchesHardware ==
    hwMode # "hw" =>
        /\ Len(pixels) = config.matrix_width * config.matrix_height
        /\ AllBlack(leds)
        /\ exitCause # "stop_raised"


\* C19: on a tick in which the engine holds no active program, or the loaded unit has
\* no render entry point, no render entry point is invoked, every entry of the pixel
\* buffer is (0,0,0) at the end of the tick, and with hardware show() has put that
\* black buffer on the strip.
BlankTickTurnsOff ==
    rendered = "blank" =>
        /\ tickProg = NoProgram
        /\ AllBlack(pixels)
        /\ hwMode = "hw" => AllBlack(leds)

BlankTickTurnsOffSeen ==
    /\ rendered = "blank" /\ pc = "pace" /\ hwMode = "hw"
    /\ frame_count = 1
    /\ current_program # NoProgram /\ ~HasAnimate(current_program)
    /\ AllBlack(leds)


\* C20: create_preset(n), then changes to the ten captured fields, then load_preset(n)
\* restores all ten fields to their captured values and returns True; load_preset of
\* a name not in the preset table returns False and changes no field.
PresetRoundTrip ==
    (probe.fn = "preset" /\ probe.phase = "loaded") =>
        /\ (probe.loaded = probe.name) =>
              /\ probe.ok
              /\ \A f \in SnapFields : probe.after[f] = probe.captured[f]
        /\ (probe.loaded = "nope") =>
              /\ ~probe.ok
              /\ probe.after = probe.before

PresetRoundTripSeen ==
    /\ probe.fn = "preset" /\ probe.phase = "loaded"
    /\ probe.loaded = "Quick" /\ probe.name = "Quick" /\ probe.ok
    /\ \E f \in SnapFields : probe.before[f] # probe.captured[f]
    /\ probe.after.speed = probe.captured.speed /\ probe.before.speed # probe.captured.speed



\* C21: when control-surface writers change brightness and call mark_updated(), then in
\* every interleaving with the loop's poll and checkpoint refresh, once the writers are
\* quiescent the hardware brightness eventually equals Configuration.brightness and
\* stays equal: no update is absorbed by a refresh without its value having been pushed.
BrightnessEventuallyPushed ==
    <>[](hwMode = "hw" => hw_brightness = config.brightness)



\* C22: in every interleaving of mark_updated() calls made from several threads without
\* a lock, update_counter never decreases from one state to the next.
UpdateCounterNeverDecreases ==
    [][config'.update_counter >= config.update_counter]_vars



\* a step that fills or shows the strip, assigns its brightness, or writes the buffer
HardwareTouched == pixels' # pixels \/ leds' # leds \/ hw_brightness' # hw_brightness
\* a step taken by a thread that is executing start()
LoopThreadStep == pc' # pc \/ spawned' # spawned

\* C23: in every interleaving of the render loop with control-surface callers, only the
\* render-loop thread invokes the hardware output capability (fill, show, brightness
\* assignment) and only the render-loop thread writes the pixel buffer.
OnlyLoopThreadDrivesHardware ==
    [][HardwareTouched => LoopThreadStep]_vars



\* a thread at this position is inside the while loop of start()
InLoop(position) == position \in {"top", "pace"}

\* C24: under any sequence of control-surface start and stop requests interleaved with
\* the render loop (a start issued after a stop while the previous loop is still
\* finishing its tick or sleeping included), at most one thread executes the render
\* loop at any time.
AtMostOneLoopThread ==
    ~(InLoop(pc) /\ InLoop(spawned))



\* a candidate that loads and whose render call never raises
Dependable(name) ==
    IF name = NoProgram \/ ~InDir(name) THEN FALSE
    ELSE IF ImportRaises(name) \/ ~HasAnimate(name) THEN FALSE
    ELSE \A o \in AnimateOutcomes(name, pixels) : ~o.raised

\* C25: if the program directory holds at least one candidate that loads and whose
\* render never raises, then from any state in which the active program's render has
\* raised the engine eventually holds an active program whose render does not raise:
\* it neither cycles for ever among failing programs nor ends with no active program.
FallbackReachesDependable ==
    ((\E i \in 1..Len(dir) : Dependable(dir[i])) /\ rendered = "raised")
        ~> Dependable(current_program)



\* C26: after engine construction, matrix_width * matrix_height equals the length of
\* the pixel buffer in every reachable state, under any sequence of control-surface
\* operations (config update, preset save with a caller-supplied config, preset load,
\* program switch).
GeometryMatchesBuffer ==
    config.matrix_width * config.matrix_height = Len(pixels)



\* C27: in every state reachable through control-surface and button operations the
\* palette table and the preset table are mappings where they are read, and loading a
\* preset never removes a previously saved preset from the preset table: every name
\* the table holds before a step is still in it after the step.
SavedPresetsSurvive ==
    [][\A i \in 1..Len(config.presets) : HasPreset(config', config.presets[i].name)]_vars



\* an api_config request that returns 400 for an invalid field
RejectedConfigStep ==
    \E post \in Posts : ~ApplyPost(config, post, 1).ok /\ Counted(ApiConfig(post))

\* C28: a configuration-update request that the control surface rejects with an
\* invalid-field error leaves every Configuration field, update_counter and
\* last_modified exactly as they were before the request.
RejectedUpdateChangesNothing ==
    [][RejectedConfigStep => config' = config]_vars



\* save_runtime_stats: 'program': self.config.current_program
StatsProgram == config.current_program

\* C29: wherever a tick can emit RuntimeStats, the program name it reports is the name
\* of the program the engine holds active; when the engine holds no active program
\* (after an exhausted fallback, say) the reported name does not name a program of the
\* directory, which would be a program that is not running.
ReportedProgramIsActive ==
    pc = "pace" =>
        IF current_program = NoProgram THEN ~InDir(StatsProgram)
        ELSE StatsProgram = current_program



\* a step of a reader: the loop inside check_config_updates, or the second reader
\* taking its checkpoint
ReaderStep == poll' # poll \/ checkpoint' # checkpoint

\* C30: has_updates changes neither last_modified nor update_counter nor any
\* configuration field, and a reader refreshing its own checkpoint changes nothing in
\* the store, so the answer one reader gets for its checkpoint is the same whatever
\* polls or checkpoint refreshes the other reader performed in between.
ReadersLeaveStoreAlone ==
    [][ReaderStep =>
          /\ config' = config
          /\ (checkpoint' = checkpoint) =>
                (HasUpdates(config', checkpoint.t, checkpoint.c)
                    <=> HasUpdates(config, checkpoint.t, checkpoint.c))
          /\ (last_config_check' = last_config_check
                 /\ last_config_counter' = last_config_counter) =>
                (ConfigChanged' <=> ConfigChanged)]_vars

ReadersLeaveStoreAloneSeen ==
    /\ checkpoint.taken /\ marksSince > 0
    /\ HasUpdates(config, checkpoint.t, checkpoint.c)
    /\ poll.at = "idle" /\ ~ConfigChanged
    /\ last_config_counter = config.update_counter /\ last_config_counter > 0

====
